---------------------------- MODULE Spec2Model ----------------------------
(***************************************************************************)
(* A model of MultiNBS/data_import_tools.py: the network loader with its    *)
(* two randomisations (degree_shuffNet, label_shuffNet), the mutation       *)
(* matrix loader, the weighted-edge filter and the matrix combiner          *)
(* (calc_combined_matrix with its min_max_normalize).  Each function is a   *)
(* small state machine over its own variables; one specification per        *)
(* function runs it on every input of a bounded domain.                     *)
(***************************************************************************)
EXTENDS Integers, Sequences, FiniteSets, TLC

VARIABLES
    \* ---- load_network_file / degree_shuffNet
    network,      \* the input graph: [nodes |-> set, edges |-> set of {a,b}]
    verbose,      \* the verbose argument
    caller,       \* "load_network_file" or "direct"
    shuff_net,    \* shuff_net: network.copy(), swapped in place
    n,            \* double_edge_swap: counted tries
    swapcount,    \* double_edge_swap: successful swaps
    attempts,     \* history: loop iterations that tested a pair of edges
    \* ---- label_shuffNet (with network, verbose, shuff_net above)
    network_nodes,        \* list(network.nodes)
    shuff_nodes,          \* the list being shuffled
    passes,               \* the i of "for i in range(10)"
    network_relabel_map,  \* node -> new label
    \* ---- load_binary_mutation_data
    filetype,     \* the filetype argument
    mut_file,     \* the file: [lines |-> (sample, gene) pairs, table |-> matrix]
    binary_mat,   \* the matrix returned
    \* ---- filter_weighted_network
    fs,           \* the files: path -> rows
    save_path,    \* where the filtered table is written
    nodeA_col,    \* the three column arguments (first column = 1)
    nodeB_col,
    score_col,
    q,            \* the quantile, a fraction <<num, den>>
    data,         \* the table read from network_file_path
    \* ---- calc_combined_matrix
    sm_mat,       \* binary mutation matrix
    rna_mat,      \* expression table: [pat_id, columns, val]
    beta,         \* the blending weight, a fraction <<num, den>>
    replace_nan,  \* the replace_nan argument
    save_args,    \* the keyword arguments given: a subset of {"outdir", "job_name"}
    rna_norm,     \* the aligned, normalised expression matrix
    combined_mat, \* the matrix returned
    saved,        \* whether combined_mat.to_csv was called
    \* ---- min_max_normalize
    col,          \* a column
    normalized,   \* its normalisation
    \* ---- every function
    raised,       \* the exception the call ended with: [type, msg]
    pc            \* control point of the running function

graphVars == <<network, verbose, shuff_net>>
swapVars == <<caller, n, swapcount, attempts>>
labelVars == <<network_nodes, shuff_nodes, passes, network_relabel_map>>

mutVars == <<filetype, mut_file, binary_mat>>
filtVars == <<fs, save_path, nodeA_col, nodeB_col, score_col, q, data>>
combVars == <<sm_mat, rna_mat, beta, replace_nan, save_args, rna_norm, combined_mat, saved>>
normVars == <<col, normalized>>

\* the variables the network functions leave alone
offNet == <<mutVars, filtVars, combVars, normVars>>
\* the variables load_binary_mutation_data leaves alone
offMut == <<graphVars, swapVars, labelVars, filtVars, combVars, normVars>>
\* the variables filter_weighted_network leaves alone
offFilt == <<graphVars, swapVars, labelVars, mutVars, combVars, normVars>>
\* the variables calc_combined_matrix leaves alone
offComb == <<graphVars, swapVars, labelVars, mutVars, filtVars>>

vars == <<graphVars, swapVars, labelVars, mutVars, filtVars, combVars, normVars,
          raised, pc>>

-----------------------------------------------------------------------------
(* Bounds of the explored inputs *)
MaxNodes == 4
MaxSwapEdges == 2
MaxEdges == 3

MaxLabelNodes == 3
MaxLines == 3
MaxRows == 2
MaxRnaRows == 2
MaxCol == 3

(* Program constants *)
TriesFactor == 10
ShufflePasses == 10

-----------------------------------------------------------------------------
(* Undirected graphs: an edge is the set of its end points *)

Pairs(S) == {{a, b} : a \in S, b \in S} \ {{a} : a \in S}

SimpleGraphs ==
    UNION {{[nodes |-> 1..k, edges |-> E] :
               E \in {F \in SUBSET Pairs(1..k) : Cardinality(F) <= MaxSwapEdges}} :
           k \in 0..MaxNodes}

\* G[u] of networkx: the neighbours of u
Adj(E, u) == {v \in UNION E : {u, v} \in E}

Degree(E, u) == Cardinality({e \in E : u \in e}) + (IF {u} \in E THEN 1 ELSE 0)

\* nx.read_edgelist only creates the nodes its edges name
NoIsolated(G) == \A u \in G.nodes : \E e \in G.edges : u \in e

-----------------------------------------------------------------------------
(* Values of the variables a specification does not use *)

SwapIdle == caller = "direct" /\ n = 0 /\ swapcount = 0 /\ attempts = 0

LabelIdle ==
    /\ network_nodes = <<>>
    /\ shuff_nodes = <<>>
    /\ passes = 0
    /\ network_relabel_map = <<>>

\* A matrix (DataFrame): row labels, column labels, and a cell for each pair.
\* A cell is a fraction <<num, den>>, den > 0; the missing value NaN has den = 0.
Mat(index, columns, f) == [index |-> index, columns |-> columns, val |-> f]

EmptyMat == Mat({}, {}, [rc \in {} |-> <<0, 1>>])

NaN == <<0, 0>>

IsNaN(c) == c[2] = 0

Num(k) == <<k, 1>>

NoError == [type |-> "", msg |-> ""]

Exc(type, msg) == [type |-> type, msg |-> msg]

GraphIdle ==
    /\ network = [nodes |-> {}, edges |-> {}]
    /\ shuff_net = [nodes |-> {}, edges |-> {}]

FiltIdle ==
    /\ fs = [p \in {"in", "out"} |-> <<>>]
    /\ save_path = "out"
    /\ nodeA_col = 1
    /\ nodeB_col = 2
    /\ score_col = 3
    /\ q = <<9, 10>>
    /\ data = <<>>

CombIdle ==
    /\ sm_mat = EmptyMat
    /\ rna_mat = [pat_id |-> <<>>, columns |-> {}, val |-> <<>>]
    /\ beta = <<4, 5>>
    /\ replace_nan = FALSE
    /\ save_args = {}
    /\ rna_norm = EmptyMat
    /\ combined_mat = EmptyMat
    /\ saved = FALSE

NormIdle ==
    /\ col = <<>>
    /\ normalized = <<>>

MutIdle ==
    /\ filetype = "list"
    /\ mut_file = [lines |-> <<>>, table |-> EmptyMat]
    /\ binary_mat = EmptyMat

-----------------------------------------------------------------------------
(* degree_shuffNet *)

edge_len == Cardinality(network.edges)
nswap == edge_len
max_tries == edge_len * TriesFactor

InitDegree ==
    /\ network \in SimpleGraphs
    /\ verbose \in BOOLEAN
    /\ caller \in {"load_network_file", "direct"}
    /\ (caller = "load_network_file" => NoIsolated(network))
    /\ shuff_net = network
    /\ n = 0
    /\ swapcount = 0
    /\ attempts = 0
    /\ LabelIdle
    /\ MutIdle
    /\ FiltIdle
    /\ CombIdle
    /\ NormIdle
    /\ raised = NoError
    /\ pc = "call"

\* The checks double_edge_swap makes before its loop.  A graph with fewer
\* than four nodes is refused; so is one without edges (the degree
\* distribution cannot be normalised).  Releases differ on a single edge:
\* later ones refuse it, earlier ones enter the loop.
SwapRefuses ==
    \/ nswap > max_tries
    \/ Cardinality(network.nodes) < 4
    \/ edge_len = 0

SwapMayRefuse == SwapRefuses \/ edge_len < 2

SwapEnter ==
    /\ pc = "call"
    /\ \/ /\ SwapMayRefuse
          /\ pc' = "except"
       \/ /\ ~SwapRefuses
          /\ pc' = "swap"
    /\ UNCHANGED <<graphVars, swapVars, labelVars, offNet, raised>>

\* The two edges (u,v), (x,y) one iteration can draw: the sources by degree
\* (a node without edges is never drawn), the targets among the neighbours.
Sources == {u \in shuff_net.nodes : Degree(shuff_net.edges, u) > 0}

\* "continue": the same source twice (any source can be drawn twice), or
\* the same target twice
SwapSkip ==
    /\ pc = "swap"
    /\ swapcount < nswap
    /\ Sources # {}
    /\ UNCHANGED vars

\* if (x not in G[u]) and (y not in G[v])
CanSwap(E, u, v, x, y) == x \notin Adj(E, u) /\ y \notin Adj(E, v)

\* G.add_edge(a, b): the end points become nodes if they were not
AddEdge(G, a, b) == [nodes |-> G.nodes \cup {a, b}, edges |-> G.edges \cup {{a, b}}]

RemoveEdge(G, a, b) == [nodes |-> G.nodes, edges |-> G.edges \ {{a, b}}]

\* faulty variant, for comparison: the second of the two old edges is left in place
SwappedOneRemoved(G, u, v, x, y) ==
    RemoveEdge(AddEdge(AddEdge(G, u, x), v, y), u, v)

\* G.add_edge(u, x); G.add_edge(v, y); G.remove_edge(u, v); G.remove_edge(x, y)
Swapped(G, u, v, x, y) ==
    RemoveEdge(RemoveEdge(AddEdge(AddEdge(G, u, x), v, y), u, v), x, y)

\* The draws <<u, v, x, y>> an iteration can test: sources u # x, targets v # y
EdgeDraws(G) ==
    LET directed == UNION {{<<u, v>> : v \in Adj(G.edges, u)} : u \in G.nodes}
        pairs == directed \X directed
    IN  {<<p[1][1], p[1][2], p[2][1], p[2][2]>> :
            p \in {r \in pairs : r[1][1] # r[2][1] /\ r[1][2] # r[2][2]}}

SwappableDraws(G) == {d \in EdgeDraws(G) : CanSwap(G.edges, d[1], d[2], d[3], d[4])}

\* if n >= max_tries: raise ...; n += 1
CountTry ==
    /\ attempts' = attempts + 1
    /\ IF n >= max_tries
         THEN /\ pc' = "except"
              /\ n' = n
         ELSE /\ n' = n + 1
              /\ pc' = "swap"

\* a pair of edges is drawn and swapped
SwapTrySwap ==
    /\ pc = "swap"
    /\ swapcount < nswap
    /\ \E G \in {Swapped(shuff_net, d[1], d[2], d[3], d[4]) : d \in SwappableDraws(shuff_net)} :
         shuff_net' = G
    /\ swapcount' = swapcount + 1
    /\ CountTry
    /\ UNCHANGED <<network, verbose, caller, labelVars, offNet, raised>>

\* a pair of edges is drawn whose swap would double an edge: nothing changes
SwapTryKeep ==
    /\ pc = "swap"
    /\ swapcount < nswap
    /\ EdgeDraws(shuff_net) # SwappableDraws(shuff_net)
    /\ CountTry
    /\ UNCHANGED <<network, verbose, caller, shuff_net, swapcount, labelVars, offNet, raised>>

\* the loop condition fails: double_edge_swap returns
SwapDone ==
    /\ pc = "swap"
    /\ swapcount >= nswap
    /\ pc' = "report"
    /\ UNCHANGED <<graphVars, swapVars, labelVars, offNet, raised>>

\* except: (bare) -- the note is printed when verbose
SwapExcept ==
    /\ pc = "except"
    /\ pc' = "report"
    /\ UNCHANGED <<graphVars, swapVars, labelVars, offNet, raised>>

\* if verbose: ... shared_edges/float(edge_len) ...; return shuff_net
SwapReport ==
    /\ pc = "report"
    /\ IF verbose /\ edge_len = 0
         THEN pc' = "raised" /\ raised' = Exc("ZeroDivisionError", "float division by zero")
         ELSE pc' = "returned" /\ UNCHANGED raised
    /\ UNCHANGED <<graphVars, swapVars, labelVars, offNet>>

NextDegree ==
    \/ SwapEnter
    \/ SwapSkip
    \/ SwapTrySwap
    \/ SwapTryKeep
    \/ SwapDone
    \/ SwapExcept
    \/ SwapReport

SpecDegree == InitDegree /\ [][NextDegree]_vars

\* C1: whatever double_edge_swap did -- every swap asked for, or an error
\* after some of them or before the first -- the graph degree_shuffNet holds
\* and returns has the node set of the input, as many edges, and at every
\* node the degree the node has in the input.
DegreeShufflePreserves ==
    pc \in {"swap", "except", "report", "returned"} =>
        /\ shuff_net.nodes = network.nodes
        /\ Cardinality(shuff_net.edges) = Cardinality(network.edges)
        /\ \A u \in network.nodes :
               Degree(shuff_net.edges, u) = Degree(network.edges, u)

\* a graph returned after the tries ran out, some swaps made, others still due
DegreeShuffleStoppedEarly ==
    /\ pc = "returned"
    /\ swapcount > 0
    /\ swapcount < nswap
    /\ shuff_net.edges # network.edges

\* C10: degree_shuffNet tests at most 10 * E pairs of edges and then returns
\* a graph; it never ends with an error, whatever verbose is.
DegreeShuffleAlwaysReturns ==
    /\ attempts <= TriesFactor * edge_len
    /\ pc # "raised"


-----------------------------------------------------------------------------
(* label_shuffNet *)

\* Graphs that may hold self-loops: the edge (a, a) is the set {a}
LoopGraphs ==
    UNION {{[nodes |-> 1..k, edges |-> E] :
               E \in {F \in SUBSET {{a, b} : a \in 1..k, b \in 1..k} :
                          Cardinality(F) <= MaxEdges}} :
           k \in 0..MaxLabelNodes}

InitLabel ==
    /\ network \in LoopGraphs
    /\ verbose \in BOOLEAN
    /\ shuff_net = network
    /\ SwapIdle
    /\ LabelIdle
    /\ MutIdle
    /\ FiltIdle
    /\ CombIdle
    /\ NormIdle
    /\ raised = NoError
    /\ pc = "label_call"

\* list(network.nodes): the nodes in the graph's own order
NodeList(G) == [k \in 1..Cardinality(G.nodes) |-> k]

LabelLists ==
    /\ pc = "label_call"
    /\ network_nodes' = NodeList(network)
    /\ shuff_nodes' = NodeList(network)
    /\ passes' = 0
    /\ pc' = "label_shuffle"
    /\ UNCHANGED <<graphVars, swapVars, network_relabel_map, offNet, raised>>

\* faulty variant, for comparison: the exchange loses the value it overwrites
ExchangeLost(x, i, j) == [x EXCEPT ![i] = x[j]]

\* x[i], x[j] = x[j], x[i]
Exchange(x, i, j) == [x EXCEPT ![i] = x[j], ![j] = x[i]]

\* random.shuffle(x): for i from the last place down to the second, exchange
\* x[i] with x[j], j drawn from the places up to i; js holds the draws
RECURSIVE Shuffle(_, _, _)
Shuffle(x, i, js) ==
    IF i < 2 THEN x ELSE Shuffle(Exchange(x, i, js[i]), i - 1, js)

Draws(len) == {js \in [1..len -> 1..len] : \A i \in 1..len : js[i] <= i}

LabelShuffle ==
    /\ pc = "label_shuffle"
    /\ passes < ShufflePasses
    /\ \E js \in Draws(Len(shuff_nodes)) :
         shuff_nodes' = Shuffle(shuff_nodes, Len(shuff_nodes), js)
    /\ passes' = passes + 1
    /\ UNCHANGED <<graphVars, swapVars, network_nodes, network_relabel_map, pc, offNet, raised>>

\* {network_nodes[i] : shuff_nodes[i]}: a dict, a later key overwrites
RelabelMap(keys, vals) ==
    [u \in {keys[i] : i \in 1..Len(keys)} |->
        vals[CHOOSE i \in 1..Len(keys) :
                 keys[i] = u /\ \A j \in 1..Len(keys) : keys[j] = u => j <= i]]

\* mapping.get(u, u)
Mapped(m, u) == IF u \in DOMAIN m THEN m[u] ELSE u

\* nx.relabel_nodes(G, m, copy=True): a new graph of the mapped nodes and edges
RelabelCopy(G, m) ==
    [nodes |-> {Mapped(m, u) : u \in G.nodes},
     edges |-> {{Mapped(m, u) : u \in e} : e \in G.edges}]

LabelRelabel ==
    /\ pc = "label_shuffle"
    /\ passes >= ShufflePasses
    /\ network_relabel_map' = RelabelMap(network_nodes, shuff_nodes)
    /\ shuff_net' = RelabelCopy(network, RelabelMap(network_nodes, shuff_nodes))
    /\ pc' = "label_report"
    /\ UNCHANGED <<network, verbose, swapVars, network_nodes, shuff_nodes, passes, offNet, raised>>

\* if verbose: ... shared_edges/float(edge_len) ...; return shuff_net
LabelReport ==
    /\ pc = "label_report"
    /\ IF verbose /\ edge_len = 0
         THEN pc' = "label_raised" /\ raised' = Exc("ZeroDivisionError", "float division by zero")
         ELSE pc' = "label_returned" /\ UNCHANGED raised
    /\ UNCHANGED <<graphVars, swapVars, labelVars, offNet>>

NextLabel == LabelLists \/ LabelShuffle \/ LabelRelabel \/ LabelReport

SpecLabel == InitLabel /\ [][NextLabel]_vars

\* C2: the relabel map is a bijection of the node set onto itself, and the
\* graph built from it has the same nodes, as many edges, and an edge
\* {map(u), map(v)} exactly where the input has the edge {u, v}.
LabelShuffleIsomorphic ==
    pc \in {"label_report", "label_returned"} =>
        /\ DOMAIN network_relabel_map = network.nodes
        /\ {network_relabel_map[u] : u \in network.nodes} = network.nodes
        /\ \A u, v \in network.nodes :
               network_relabel_map[u] = network_relabel_map[v] => u = v
        /\ shuff_net.nodes = network.nodes
        /\ Cardinality(shuff_net.edges) = Cardinality(network.edges)
        /\ \A u, v \in network.nodes :
               ({u, v} \in network.edges) <=>
                   ({network_relabel_map[u], network_relabel_map[v]} \in shuff_net.edges)

\* a graph returned whose labels really moved
LabelShuffleMoved ==
    /\ pc = "label_returned"
    /\ network.edges # {}
    /\ shuff_net.edges # network.edges
    /\ \E u \in network.nodes : network_relabel_map[u] # u

-----------------------------------------------------------------------------
(* load_binary_mutation_data *)

SampleNames == {"s1", "s2"}
GeneNames == {"g1", "g2"}

\* a 'list' file: one (sample, gene) pair a line
PairLists ==
    UNION {[1..len -> SampleNames \X GeneNames] : len \in 0..MaxLines}

\* a 'matrix' file: a header of genes, then a sample and its cells a line
TableCells == {Num(0), Num(1), <<3, 2>>, NaN}

Tables ==
    UNION {{Mat(I, {"g1"}, f) : f \in [I \X {"g1"} -> TableCells]} :
           I \in {{"s1"}, {"s1", "s2"}}}

InitMutLoad ==
    /\ filetype \in {"list", "matrix", "csv"}
    /\ \/ /\ filetype # "matrix"
          /\ \E ls \in PairLists : mut_file = [lines |-> ls, table |-> EmptyMat]
       \/ /\ filetype # "list"
          /\ \E t \in Tables : mut_file = [lines |-> <<>>, table |-> t]
    /\ binary_mat = EmptyMat
    /\ verbose \in BOOLEAN
    /\ GraphIdle
    /\ SwapIdle
    /\ LabelIdle
    /\ FiltIdle
    /\ CombIdle
    /\ NormIdle
    /\ raised = NoError
    /\ pc = "mut_call"

\* unstack() refuses an index that holds the same (row, column) twice
HasDuplicates(ls) == \E i, j \in 1..Len(ls) : i # j /\ ls[i] = ls[j]

\* pd.DataFrame(1, index=pairs)[0].unstack(): a row for every sample of the
\* index, a column for every gene, 1 where the pair is in the index and NaN
\* where it is not
Unstack(ls) ==
    LET pairs == {ls[i] : i \in 1..Len(ls)}
        rows == {pr[1] : pr \in pairs}
        cols == {pr[2] : pr \in pairs}
    IN  Mat(rows, cols,
            [rc \in rows \X cols |-> IF rc \in pairs THEN Num(1) ELSE NaN])

\* .fillna(v)
FillNa(m, v) ==
    Mat(m.index, m.columns,
        [rc \in m.index \X m.columns |-> IF IsNaN(m.val[rc]) THEN v ELSE m.val[rc]])

HasNaN(m) == \E rc \in m.index \X m.columns : IsNaN(m.val[rc])

\* .astype(int): the fraction is cut towards zero
AsInt(m) ==
    Mat(m.index, m.columns,
        [rc \in m.index \X m.columns |-> Num(m.val[rc][1] \div m.val[rc][2])])

MutLoadList ==
    /\ pc = "mut_call"
    /\ filetype = "list"
    /\ IF HasDuplicates(mut_file.lines)
         THEN /\ raised' = Exc("ValueError", "Index contains duplicate entries, cannot reshape")
              /\ pc' = "mut_raised"
              /\ UNCHANGED binary_mat
         ELSE /\ binary_mat' = FillNa(Unstack(mut_file.lines), Num(0))
              /\ pc' = "mut_returned"
              /\ UNCHANGED raised
    /\ UNCHANGED <<filetype, mut_file, offMut>>

MutLoadMatrix ==
    /\ pc = "mut_call"
    /\ filetype = "matrix"
    /\ IF HasNaN(mut_file.table)
         THEN /\ raised' = Exc("ValueError", "Cannot convert non-finite values (NA or inf) to integer")
              /\ pc' = "mut_raised"
              /\ UNCHANGED binary_mat
         ELSE /\ binary_mat' = AsInt(mut_file.table)
              /\ pc' = "mut_returned"
              /\ UNCHANGED raised
    /\ UNCHANGED <<filetype, mut_file, offMut>>

MutLoadOther ==
    /\ pc = "mut_call"
    /\ filetype \notin {"list", "matrix"}
    /\ raised' = Exc("ValueError", "'filetype' must be either 'matrix' or 'list'.")
    /\ pc' = "mut_raised"
    /\ UNCHANGED <<mutVars, offMut>>

NextMutLoad == MutLoadList \/ MutLoadMatrix \/ MutLoadOther

SpecMutLoad == InitMutLoad /\ [][NextMutLoad]_vars

\* C7: with filetype 'list' the call returns, for every list of pairs, the
\* matrix whose rows are the samples of the list, whose columns are its genes
\* and whose cell (s, g) is 1 where the pair is in the list and 0 elsewhere;
\* a filetype that is neither 'list' nor 'matrix' raises ValueError.
MutListGivesPresenceMatrix ==
    LET ls == mut_file.lines
        pairs == {ls[i] : i \in 1..Len(ls)}
    IN  pc \in {"mut_returned", "mut_raised"} =>
          /\ filetype = "list" =>
                /\ pc = "mut_returned"
                /\ binary_mat.index = {pr[1] : pr \in pairs}
                /\ binary_mat.columns = {pr[2] : pr \in pairs}
                /\ \A rc \in binary_mat.index \X binary_mat.columns :
                       binary_mat.val[rc] = IF rc \in pairs THEN Num(1) ELSE Num(0)
          /\ filetype \notin {"list", "matrix"} =>
                pc = "mut_raised" /\ raised.type = "ValueError"

-----------------------------------------------------------------------------
(* filter_weighted_network *)

network_file_path == "in"

NodeNames == {1, 2}
Scores == {0, 1, 2}

\* an edge table without header: node, node, score on every line
EdgeTables ==
    UNION {[1..len -> NodeNames \X NodeNames \X Scores] : len \in 0..MaxRows}

Quantiles == {<<0, 1>>, <<1, 2>>, <<9, 10>>, <<1, 1>>}

ColumnChoices == {<<1, 2, 3>>, <<2, 1, 3>>, <<1, 3, 2>>, <<3, 3, 1>>}

InitFilter ==
    /\ \E t \in EdgeTables : fs = [p \in {"in", "out"} |-> IF p = "in" THEN t ELSE <<>>]
    /\ save_path \in {"in", "out"}
    /\ \E c \in ColumnChoices : nodeA_col = c[1] /\ nodeB_col = c[2] /\ score_col = c[3]
    /\ q \in Quantiles
    /\ data = <<>>
    /\ verbose \in BOOLEAN
    /\ GraphIdle
    /\ SwapIdle
    /\ LabelIdle
    /\ MutIdle
    /\ CombIdle
    /\ NormIdle
    /\ raised = NoError
    /\ pc = "filter_call"

\* pd.read_csv: the table of the file; a file without lines is refused
FilterRead ==
    /\ pc = "filter_call"
    /\ IF Len(fs[network_file_path]) = 0
         THEN /\ raised' = Exc("EmptyDataError", "No columns to parse from file")
              /\ pc' = "filter_raised"
              /\ UNCHANGED data
         ELSE /\ data' = fs[network_file_path]
              /\ pc' = "filter_select"
              /\ UNCHANGED raised
    /\ UNCHANGED <<fs, save_path, nodeA_col, nodeB_col, score_col, q, offFilt>>

\* the k-th smallest of the values xs[1..]
OrderStat(xs, k) ==
    CHOOSE v \in {xs[i] : i \in 1..Len(xs)} :
        /\ Cardinality({i \in 1..Len(xs) : xs[i] < v}) < k
        /\ Cardinality({i \in 1..Len(xs) : xs[i] <= v}) >= k

\* Series.quantile(qq), linear interpolation, times the denominator of qq:
\* the place (len-1)*qq falls between two neighbours of the sorted values
QuantileScaled(xs, qq) ==
    LET h == (Len(xs) - 1) * qq[1]
        lo == h \div qq[2]
        rest == h % qq[2]
        xlo == OrderStat(xs, lo + 1)
        xhi == OrderStat(xs, IF lo + 2 <= Len(xs) THEN lo + 2 ELSE Len(xs))
    IN  qq[2] * xlo + rest * (xhi - xlo)

ScoreColumn(t, c) == [i \in 1..Len(t) |-> t[i][c]]

\* faulty variant, for comparison: rows at the quantile are kept too
AtOrAboveQuantile(score, qq, qscaled) == score * qq[2] >= qscaled

\* data[score_col] > q_score
AboveQuantile(score, qq, qscaled) == score * qq[2] > qscaled

RECURSIVE Select(_, _, _, _)
Select(t, c, qq, qscaled) ==
    IF t = <<>> THEN <<>>
    ELSE IF AboveQuantile(Head(t)[c], qq, qscaled)
           THEN <<Head(t)>> \o Select(Tail(t), c, qq, qscaled)
           ELSE Select(Tail(t), c, qq, qscaled)

\* [data.columns[[nodeA_col, nodeB_col, score_col]]]
Project(t, a, b, c) == [i \in 1..Len(t) |-> <<t[i][a], t[i][b], t[i][c]>>]

data_filt ==
    Project(Select(data, score_col, q, QuantileScaled(ScoreColumn(data, score_col), q)),
            nodeA_col, nodeB_col, score_col)

\* data_filt.to_csv(save_path, ...)
FilterWrite ==
    /\ pc = "filter_select"
    /\ fs' = [fs EXCEPT ![save_path] = data_filt]
    /\ pc' = "filter_returned"
    /\ UNCHANGED <<save_path, nodeA_col, nodeB_col, score_col, q, data, raised, offFilt>>

NextFilter == FilterRead \/ FilterWrite

SpecFilter == InitFilter /\ [][NextFilter]_vars

\* the rows of the table read whose score is above the q-quantile of the scores
KeptRows ==
    {i \in 1..Len(data) :
        data[i][score_col] * q[2] > QuantileScaled(ScoreColumn(data, score_col), q)}

WrittenIsFiltered ==
    /\ Len(fs[save_path]) = Cardinality(KeptRows)
    /\ \A i \in KeptRows :
           fs[save_path][Cardinality({j \in KeptRows : j <= i})]
               = <<data[i][nodeA_col], data[i][nodeB_col], data[i][score_col]>>

-----------------------------------------------------------------------------
(* Arithmetic on cells: exact fractions, NaN absorbing *)

RatLeq(a, b) == a[1] * b[2] <= b[1] * a[2]

RatEq(a, b) == ~IsNaN(a) /\ ~IsNaN(b) /\ a[1] * b[2] = b[1] * a[2]

\* equal as cells of a table: the same number, or both missing
CellEq(a, b) == (IsNaN(a) /\ IsNaN(b)) \/ RatEq(a, b)

Add(a, b) == IF IsNaN(a) \/ IsNaN(b) THEN NaN ELSE <<a[1] * b[2] + b[1] * a[2], a[2] * b[2]>>

Sub(a, b) == IF IsNaN(a) \/ IsNaN(b) THEN NaN ELSE <<a[1] * b[2] - b[1] * a[2], a[2] * b[2]>>

Mul(a, b) == IF IsNaN(a) \/ IsNaN(b) THEN NaN ELSE <<a[1] * b[1], a[2] * b[2]>>

Div(a, b) ==
    IF IsNaN(a) \/ IsNaN(b) \/ b[1] = 0 THEN NaN
    ELSE IF b[1] > 0 THEN <<a[1] * b[2], a[2] * b[1]>>
    ELSE <<(0 - a[1]) * b[2], a[2] * (0 - b[1])>>

-----------------------------------------------------------------------------
(* min_max_normalize, the function calc_combined_matrix applies to a column *)

Present(c) == {c[i] : i \in {j \in DOMAIN c : ~IsNaN(c[j])}}

\* col.max(), col.min(): missing cells are skipped; NaN when all are missing
ColMax(c) ==
    IF Present(c) = {} THEN NaN
    ELSE CHOOSE m \in Present(c) : \A x \in Present(c) : RatLeq(x, m)

ColMin(c) ==
    IF Present(c) = {} THEN NaN
    ELSE CHOOSE m \in Present(c) : \A x \in Present(c) : RatLeq(m, x)

\* faulty variant, for comparison: the range measured from zero
ColRangeFromZero(c) == ColMax(c)

\* col_range = col.max() - col.min()
ColRange(c) == Sub(ColMax(c), ColMin(c))

MinMaxNormalize(c) ==
    IF ~IsNaN(ColRange(c)) /\ ColRange(c)[1] = 0
      THEN [i \in DOMAIN c |-> Num(0)]
      ELSE [i \in DOMAIN c |-> Div(Sub(c[i], ColMin(c)), ColRange(c))]

ColCells == {Num(0 - 1), Num(0), Num(1), Num(3), NaN}

InitNormalize ==
    /\ col \in UNION {[1..len -> ColCells] : len \in 0..MaxCol}
    /\ normalized = <<>>
    /\ verbose = TRUE
    /\ GraphIdle
    /\ SwapIdle
    /\ LabelIdle
    /\ MutIdle
    /\ FiltIdle
    /\ CombIdle
    /\ raised = NoError
    /\ pc = "norm_call"

NormApply ==
    /\ pc = "norm_call"
    /\ normalized' = MinMaxNormalize(col)
    /\ pc' = "norm_returned"
    /\ UNCHANGED <<col, offComb, combVars, raised>>

NextNormalize == NormApply

SpecNormalize == InitNormalize /\ [][NextNormalize]_vars

\* the values a column holds, missing cells aside
Values(c) == {i \in DOMAIN c : ~IsNaN(c[i])}

Constant(c) == Values(c) # {} /\ \A i, j \in Values(c) : RatEq(c[i], c[j])

Varying(c) == \E i, j \in Values(c) : ~RatEq(c[i], c[j])

\* C6: a column that is not constant has its least value sent to 0, its
\* greatest to 1 and every value to a place between them, in the order the
\* values had; a constant column is sent to zeros throughout.
NormalizeMapsMinMax ==
    pc = "norm_returned" =>
        /\ DOMAIN normalized = DOMAIN col
        /\ Varying(col) =>
              \A i \in Values(col) :
                 /\ ~IsNaN(normalized[i])
                 /\ RatLeq(Num(0), normalized[i]) /\ RatLeq(normalized[i], Num(1))
                 /\ (\A j \in Values(col) : RatLeq(col[i], col[j])) =>
                        RatEq(normalized[i], Num(0))
                 /\ (\A j \in Values(col) : RatLeq(col[j], col[i])) =>
                        RatEq(normalized[i], Num(1))
                 /\ \A j \in Values(col) :
                        RatLeq(col[i], col[j]) <=> RatLeq(normalized[i], normalized[j])
        /\ Constant(col) => \A i \in DOMAIN col : RatEq(normalized[i], Num(0))

\* a column of three different values, normalised
NormalizeThreeValues ==
    /\ pc = "norm_returned"
    /\ \E i, j, k \in Values(col) :
          /\ ~RatLeq(col[j], col[i])
          /\ ~RatLeq(col[k], col[j])
          /\ RatEq(normalized[i], Num(0))
          /\ ~RatLeq(normalized[j], Num(0)) /\ ~RatLeq(Num(1), normalized[j])
          /\ RatEq(normalized[k], Num(1))

-----------------------------------------------------------------------------
(* calc_combined_matrix *)

PatNames == {"s1", "s2", "s3"}
SmCells == {Num(0), Num(1), NaN}
RnaCells == {Num(0), Num(1), Num(2), NaN}
Betas == {<<0 - 1, 2>>, <<0, 1>>, <<1, 2>>, <<1, 1>>, <<3, 2>>}

\* mutation matrices over the samples s1, s2 and the gene g1
SmMats ==
    {Mat({"s1", "s2"}, {"g1"}, f) : f \in [{"s1", "s2"} \X {"g1"} -> SmCells]}

\* expression tables: a first column of sample names, then gene columns.
\* The cells of g1 vary; a gene g2 that sm_mat does not have holds 1, 2, ...
RnaTable(pats, genes, g1) ==
    [pat_id |-> pats, columns |-> genes,
     val |-> [rc \in (1..Len(pats)) \X genes |->
                 IF rc[2] = "g1" THEN g1[rc[1]] ELSE Num(rc[1])]]

RnaMats ==
    UNION {UNION {{RnaTable(pats, genes, g1) : g1 \in [1..len -> RnaCells]} :
                     pats \in [1..len -> PatNames], genes \in {{"g1"}, {"g1", "g2"}}}
             \cup {RnaTable(pats, {"g2"}, [i \in 1..len |-> Num(0)]) :
                     pats \in [1..len -> PatNames]} :
           len \in 0..MaxRnaRows}

InitCombine ==
    /\ sm_mat \in SmMats
    /\ rna_mat \in RnaMats
    /\ beta \in Betas
    /\ replace_nan \in BOOLEAN
    /\ save_args \in {{}, {"outdir"}, {"outdir", "job_name"}}
    /\ rna_norm = EmptyMat
    /\ combined_mat = EmptyMat
    /\ saved = FALSE
    /\ verbose = TRUE
    /\ GraphIdle
    /\ SwapIdle
    /\ LabelIdle
    /\ MutIdle
    /\ FiltIdle
    /\ NormIdle
    /\ raised = NoError
    /\ pc = "comb_call"

\* faulty variant, for comparison: only a weight above 1 is refused
BetaAboveOne(b) == ~RatLeq(b, Num(1))

\* if beta < 0.0 or beta > 1.0
BetaOutOfBounds(b) == ~RatLeq(Num(0), b) \/ ~RatLeq(b, Num(1))

\* rna_mat.isnull().values.any()
RnaHasNaN(t) == \E rc \in DOMAIN t.val : IsNaN(t.val[rc])

RnaFillNa(t, v) ==
    [t EXCEPT !.val = [rc \in DOMAIN t.val |-> IF IsNaN(t.val[rc]) THEN v ELSE t.val[rc]]]

BetaError == Exc("ValueError", "Alpha must be a value between 0 and 1, inclusive")
SmNaError == Exc("ValueError", "All sm_mat entries must have non NA values")
RnaNaError == Exc("ValueError", "All rna_mat entries must have non NA values")

\* the check of beta, the two checks for missing values, then the
\* replacement asked for by replace_nan
CombValidate ==
    /\ pc = "comb_call"
    /\ IF BetaOutOfBounds(beta)
         THEN raised' = BetaError /\ pc' = "comb_raised" /\ UNCHANGED <<sm_mat, rna_mat>>
         ELSE IF HasNaN(sm_mat)
         THEN raised' = SmNaError /\ pc' = "comb_raised" /\ UNCHANGED <<sm_mat, rna_mat>>
         ELSE IF RnaHasNaN(rna_mat)
         THEN raised' = RnaNaError /\ pc' = "comb_raised" /\ UNCHANGED <<sm_mat, rna_mat>>
         ELSE /\ IF replace_nan
                   THEN /\ sm_mat' = FillNa(sm_mat, Num(0))
                        /\ rna_mat' = RnaFillNa(rna_mat, Num(0))
                   ELSE UNCHANGED <<sm_mat, rna_mat>>
              /\ pc' = "comb_align"
              /\ UNCHANGED raised
    /\ UNCHANGED <<beta, replace_nan, save_args, rna_norm, combined_mat, saved,
                   normVars, offComb>>

PatDuplicated(t) ==
    \E i, j \in 1..Len(t.pat_id) : i # j /\ t.pat_id[i] = t.pat_id[j]

\* rna_mat[common genes].set_index(pat_id).reindex(sm_mat.index)[sm_mat.columns]:
\* the row of each sample of sm_mat, missing cells for a sample rna_mat lacks
Aligned(t, sm) ==
    Mat(sm.index, sm.columns,
        [rc \in sm.index \X sm.columns |->
            IF \E i \in 1..Len(t.pat_id) : t.pat_id[i] = rc[1]
              THEN t.val[<<CHOOSE i \in 1..Len(t.pat_id) : t.pat_id[i] = rc[1], rc[2]>>]
              ELSE NaN])

Column(m, g) == [s \in m.index |-> m.val[<<s, g>>]]

\* rna_mat_clean.apply(min_max_normalize): column by column
ApplyNormalize(m) ==
    Mat(m.index, m.columns,
        [rc \in m.index \X m.columns |-> MinMaxNormalize(Column(m, rc[2]))[rc[1]]])

CombAlignNormalize ==
    /\ pc = "comb_align"
    /\ IF PatDuplicated(rna_mat)
         THEN /\ raised' = Exc("ValueError", "cannot reindex on an axis with duplicate labels")
              /\ pc' = "comb_raised"
              /\ UNCHANGED rna_norm
         ELSE IF ~(sm_mat.columns \subseteq rna_mat.columns)
         THEN /\ raised' = Exc("KeyError", "not in index")
              /\ pc' = "comb_raised"
              /\ UNCHANGED rna_norm
         ELSE /\ rna_norm' = ApplyNormalize(Aligned(rna_mat, sm_mat))
              /\ pc' = "comb_combine"
              /\ UNCHANGED raised
    /\ UNCHANGED <<sm_mat, rna_mat, beta, replace_nan, save_args, combined_mat, saved,
                   normVars, offComb>>

\* beta * sm_mat + (1-beta) * rna_norm
Combined(b, sm, norm) ==
    Mat(sm.index, sm.columns,
        [rc \in sm.index \X sm.columns |->
            Add(Mul(b, sm.val[rc]), Mul(Sub(Num(1), b), norm.val[rc]))])

CombCombineSave ==
    /\ pc = "comb_combine"
    /\ combined_mat' = Combined(beta, sm_mat, rna_norm)
    /\ saved' = ("outdir" \in save_args)
    /\ pc' = "comb_returned"
    /\ UNCHANGED <<sm_mat, rna_mat, beta, replace_nan, save_args, rna_norm, raised,
                   normVars, offComb>>

NextCombine == CombValidate \/ CombAlignNormalize \/ CombCombineSave

SpecCombine == InitCombine /\ [][NextCombine]_vars

\* C3: with beta = 1 the matrix returned is sm_mat, cell by cell over the
\* same samples and genes; with beta = 0 it is the normalised expression
\* matrix over the samples and genes of sm_mat.
CombineEndpoints ==
    pc = "comb_returned" =>
        /\ combined_mat.index = sm_mat.index
        /\ combined_mat.columns = sm_mat.columns
        /\ RatEq(beta, Num(1)) =>
              \A rc \in sm_mat.index \X sm_mat.columns :
                 RatEq(combined_mat.val[rc], sm_mat.val[rc])
        /\ RatEq(beta, Num(0)) =>
              \A rc \in sm_mat.index \X sm_mat.columns :
                 CellEq(combined_mat.val[rc], rna_norm.val[rc])

\* C4: without replace_nan a missing value in either matrix ends the call
\* with the ValueError of that matrix; with replace_nan no such error is
\* raised: the missing values become 0 and the call goes on.
MissingValuesRejectedUnlessReplaced ==
    (pc # "comb_call" /\ ~BetaOutOfBounds(beta)) =>
        /\ (~replace_nan /\ (HasNaN(sm_mat) \/ RnaHasNaN(rna_mat))) =>
              raised \in {SmNaError, RnaNaError}
        /\ replace_nan => raised \notin {SmNaError, RnaNaError}

\* C5: every cell of the matrix returned lies in [0, 1] and is
\* beta * sm_mat + (1 - beta) * normalised expression at the same place.
CombinedInUnitInterval ==
    pc = "comb_returned" =>
        \A rc \in sm_mat.index \X sm_mat.columns :
           /\ ~IsNaN(combined_mat.val[rc])
           /\ RatLeq(Num(0), combined_mat.val[rc])
           /\ RatLeq(combined_mat.val[rc], Num(1))
           /\ RatEq(combined_mat.val[rc],
                    Add(Mul(beta, sm_mat.val[rc]),
                        Mul(Sub(Num(1), beta), rna_norm.val[rc])))

\* C8: a beta below 0 or above 1 ends the call with the ValueError of the
\* weight before anything is computed or written, also when 'outdir' is
\* given; a beta from 0 to 1, the ends included, never raises that error.
BetaValidated ==
    pc # "comb_call" =>
        /\ (beta[1] < 0 \/ beta[1] > beta[2]) =>
              /\ pc = "comb_raised"
              /\ raised = BetaError
              /\ ~saved
              /\ rna_norm = EmptyMat
              /\ combined_mat = EmptyMat
        /\ (0 <= beta[1] /\ beta[1] <= beta[2]) => raised # BetaError

\* a weight above 1 refused although a place to save was given
BetaRefusedWithOutdir ==
    /\ pc = "comb_raised"
    /\ raised = BetaError
    /\ beta[1] > beta[2]
    /\ "outdir" \in save_args

=============================================================================
